---- MODULE Spec2Model ----
(***************************************************************************)
(* The conversation / tool-execution loop of agent.py (class CodingAgent). *)
(*                                                                         *)
(* The REPL (run) reads a prompt and calls call_claude, which exchanges    *)
(* one request with the model service, executes at most one requested     *)
(* tool and, after a tool, exchanges a second request                      *)
(* (call_claude_continue).  The two urlopen calls are the only places the  *)
(* program blocks, so the program's position (pc) is one of                *)
(*   "repl"      waiting at input("> ")                                    *)
(*   "main"      inside urlopen of call_claude                             *)
(*   "continue"  inside urlopen of call_claude_continue                    *)
(*   "exited"    the REPL loop was left                                    *)
(* and every action runs the code between two such points.                 *)
(*                                                                         *)
(* Strings the program only stores, compares or concatenates (prompts,     *)
(* file contents, tool results, error messages) are TLA+ strings.  The     *)
(* text of content blocks and the reply, which the program joins and       *)
(* strips, are sequences of one-character strings.                         *)
(***************************************************************************)
EXTENDS Integers, Sequences, FiniteSets, TLC

\* ------------------------------------------------------------------------
\* Bounds of the model
\* ------------------------------------------------------------------------
\* number of prompts the operator submits in one session
MaxPrompts == 2
\* number of content blocks in one initial response of the model service
MaxBlocks == 2
\* number of content blocks in one continuation response
MaxContinueBlocks == 1

\* ------------------------------------------------------------------------
\* Values of the environment
\* ------------------------------------------------------------------------
\* sys.argv[1], the target file
filename == "target.py"
\* some other path of the file system
OtherPath == "other.py"
Paths == {filename, OtherPath}
\* what the file system holds for a path that does not exist
NoFile == "<no file>"
\* os.getenv gives None for a variable that is not set
None == "<None>"
\* values of ANTHROPIC_API_KEY in the environment of the process
ApiKeys == {None, "", "sk-secret"}
\* the placeholder of the logged headers
REDACTED == "[REDACTED]"
\* what the operator types
Prompts == {"fix the bug"}
QuitWords == {"quit", "exit", "q"}
\* the mapping without keys
Empty == [k \in {} |-> 0]
\* a tool name the program does not know
UnknownTool == "delete_file"

\* ------------------------------------------------------------------------
\* Text: sequences of characters
\* ------------------------------------------------------------------------
\* str.strip() removes these from both ends
Whitespace == {" ", "\n", "\t"}

RECURSIVE LStrip(_)
LStrip(s) ==
    IF s # <<>> /\ Head(s) \in Whitespace THEN LStrip(Tail(s)) ELSE s

RECURSIVE RStrip(_)
RStrip(s) ==
    IF s # <<>> /\ s[Len(s)] \in Whitespace
    THEN RStrip(SubSeq(s, 1, Len(s) - 1))
    ELSE s

\* str.strip()
Strip(s) == RStrip(LStrip(s))

\* sep.join(parts)
RECURSIVE Join(_, _)
Join(parts, sep) ==
    IF parts = <<>> THEN <<>>
    ELSE IF Len(parts) = 1 THEN parts[1]
    ELSE parts[1] \o sep \o Join(Tail(parts), sep)

\* "Tool execution completed."
ToolCompleted ==
    << "T", "o", "o", "l", " ", "e", "x", "e", "c", "u", "t", "i", "o", "n",
       " ", "c", "o", "m", "p", "l", "e", "t", "e", "d", "." >>

\* parameters.get(key, default)
Get(parameters, key, default) ==
    IF key \in DOMAIN parameters THEN parameters[key] ELSE default

\* ------------------------------------------------------------------------
\* Turns and content blocks
\* ------------------------------------------------------------------------
\* A Turn is {"role": ..., "content": ...}; its content is a plain string
\* ([text |-> s]) or a list of content blocks ([blocks |-> <<...>>]).
UserTurn(prompt) == [role |-> "user", content |-> [text |-> prompt]]

AssistantTurn(content) == [role |-> "assistant", content |-> [blocks |-> content]]

\* (mutant) the tool_result carries the tool's name where its id belongs
ToolResultTurnByName(tool_call, tool_result) ==
    [role |-> "user",
     content |-> [blocks |-> << [type |-> "tool_result",
                                 tool_use_id |-> tool_call.name,
                                 content |-> tool_result] >>]]

ToolResultTurn(tool_call, tool_result) ==
    [role |-> "user",
     content |-> [blocks |-> << [type |-> "tool_result",
                                 tool_use_id |-> tool_call.id,
                                 content |-> tool_result] >>]]

TextBlock(text) == [type |-> "text", text |-> text]

ToolUseBlock(id, name, input) ==
    [type |-> "tool_use", id |-> id, name |-> name, input |-> input]

\* ------------------------------------------------------------------------
\* What the model service may answer
\* ------------------------------------------------------------------------
\* texts of text blocks
Texts == { <<"a">>, <<" ">> }

\* the tools the service asks for: name and input mapping
ToolRequests ==
    { [name |-> UnknownTool, input |-> Empty],
      [name |-> "write_file", input |-> [content |-> "x"]],
      [name |-> "generate_random_number", input |-> [min_val |-> 7, max_val |-> 5]],
      [name |-> "run_script", input |-> Empty] }

\* the service gives every tool_use block of a response its own id
ToolUseId(i) == "toolu_" \o ToString(i)

\* the blocks that may stand at position i of a response
BlocksAt(i) ==
    { TextBlock(t) : t \in Texts }
    \cup { ToolUseBlock(ToolUseId(i), r.name, r.input) : r \in ToolRequests }

\* the content lists of exactly n blocks
RECURSIVE ContentOfLen(_)
ContentOfLen(n) ==
    IF n = 0 THEN { <<>> }
    ELSE { Append(c, b) : c \in ContentOfLen(n - 1), b \in BlocksAt(n) }

\* result["content"] of a response
Contents == UNION { ContentOfLen(n) : n \in 0..MaxBlocks }

\* what a continuation response holds: the request carries no tool schema,
\* yet nothing keeps the service from answering with a tool_use block
ContinueTexts == { <<"b">>, <<" ">> }

ContinueBlocksAt(i) ==
    { TextBlock(t) : t \in ContinueTexts }
    \cup { ToolUseBlock(ToolUseId(i), "write_file", [content |-> "y"]) }

RECURSIVE ContinueContentOfLen(_)
ContinueContentOfLen(n) ==
    IF n = 0 THEN { <<>> }
    ELSE { Append(c, b) : c \in ContinueContentOfLen(n - 1), b \in ContinueBlocksAt(n) }

ContinueContents == UNION { ContinueContentOfLen(n) : n \in 0..MaxContinueBlocks }

\* urlopen raises one of these instead of returning a response
TransportFaults == { "HTTPError", "URLError" }

\* ------------------------------------------------------------------------
\* The tools
\* ------------------------------------------------------------------------
\* A handler's run is a record: handler (its name), raised (an exception left it),
\* value (what it returned: [str |-> s] or [int |-> n]) or error (the
\* exception's message), files (the file system after it) and children (the
\* processes it spawned: the script, the seconds it runs when left alone, and
\* the state it is in when the handler returns).
\* A handler whose run depends on the environment has several runs.

\* the defaults of generate_random_number
DefaultMinVal == 1
DefaultMaxVal == 100
\* the timeout of subprocess.run, in seconds
ScriptTimeout == 30

\* how a script may run: the seconds it takes and what it leaves
ScriptRuns ==
    { [seconds |-> 1, returncode |-> 0, stdout |-> "ok\n", stderr |-> ""],
      [seconds |-> 1, returncode |-> 1, stdout |-> "", stderr |-> "boom\n"],
      [seconds |-> ScriptTimeout + 1, returncode |-> 0, stdout |-> "late\n", stderr |-> ""] }

\* os.path.exists(path)
Exists(fs, path) == path \in DOMAIN fs /\ fs[path] # NoFile

\* The file system holds what was written: on a POSIX system open(path, 'w')
\* writes the characters of the text as they are.  open(path, 'r') reads with
\* universal newlines: every "\r\n" and every "\r" of the file is given to
\* the program as "\n".  The strings of the model that hold a carriage
\* return are below; every other string of the model is read as it is.
UniversalNewlines(text) ==
    IF text = "a\r\nb" THEN "a\nb"
    ELSE IF text = "a\rb" THEN "a\nb"
    ELSE text

Returned(handler, value, fs, children) ==
    [handler |-> handler, raised |-> FALSE, value |-> value,
     files |-> fs, children |-> children]

Raised(handler, error, fs) ==
    [handler |-> handler, raised |-> TRUE, error |-> error,
     files |-> fs, children |-> <<>>]

\* str(tool_result)
Str(value) == IF "int" \in DOMAIN value THEN ToString(value.int) ELSE value.str

\* write_file: open(filename, 'w') either fails, and the handler returns the
\* error text, or the file then holds content
write_file(fs, content) ==
    { Returned("write_file", [str |-> "Successfully wrote " \o ToString(Len(content))
                          \o " characters to " \o filename],
               [fs EXCEPT ![filename] = content], <<>>),
      Returned("write_file", [str |-> "Error writing to " \o filename \o ": Permission denied"],
               fs, <<>>) }

read_file(fs, filepath) ==
    IF Exists(fs, filepath)
    THEN { Returned("read_file", [str |-> UniversalNewlines(fs[filepath])], fs, <<>>),
           Returned("read_file", [str |-> "Error reading file " \o filepath \o ": Permission denied"],
                    fs, <<>>) }
    ELSE { Returned("read_file", [str |-> "File not found: " \o filepath], fs, <<>>) }

\* random.randint(min_val, max_val) raises ValueError on an empty range
generate_random_number(fs, min_val, max_val) ==
    IF min_val > max_val
    THEN { Raised("generate_random_number", "ValueError: empty range for randrange()", fs) }
    ELSE { Returned("generate_random_number", [int |-> result], fs, <<>>) : result \in min_val..max_val }

\* the block run_script builds from a finished child
ScriptOutput(run) ==
    "EXECUTION " \o (IF run.returncode = 0 THEN "SUCCESS" ELSE "FAILED")
    \o (IF run.stdout # "" THEN "\nSTDOUT:\n" \o run.stdout ELSE "")
    \o (IF run.stderr # "" THEN "\nSTDERR:\n" \o run.stderr ELSE "")
    \o "\nEXIT CODE: " \o ToString(run.returncode)

\* (mutant) subprocess.run without a timeout: the script runs to its end
run_script_unbounded(fs, script_path) ==
    LET path == IF script_path = None THEN filename ELSE script_path IN
    IF ~Exists(fs, path)
    THEN { Returned("run_script", [str |-> "Script file not found: " \o path], fs, <<>>) }
    ELSE { Returned("run_script", [str |-> ScriptOutput(run)],
                    fs, << [script |-> path, seconds |-> run.seconds,
                            state |-> "exited"] >>)
         : run \in ScriptRuns }
      \cup { Returned("run_script", [str |-> "Python interpreter not found. Make sure Python is installed and accessible."],
                      fs, <<>>) }

\* (mutant) without the os.path.exists check: the interpreter is started on
\* a path that does not exist and exits with an error
run_script_unchecked(fs, script_path) ==
    LET path == IF script_path = None THEN filename ELSE script_path IN
    IF ~Exists(fs, path)
    THEN { Returned("run_script",
                    [str |-> "EXECUTION FAILED\nSTDERR:\ncan't open file\nEXIT CODE: 2"],
                    fs, << [script |-> path, seconds |-> 1, state |-> "exited"] >>) }
    ELSE { IF run.seconds > ScriptTimeout
           THEN Returned("run_script", [str |-> "Script execution timed out after 30 seconds: " \o path],
                         fs, << [script |-> path, seconds |-> run.seconds,
                                 state |-> "killed"] >>)
           ELSE Returned("run_script", [str |-> ScriptOutput(run)],
                         fs, << [script |-> path, seconds |-> run.seconds,
                                 state |-> "exited"] >>)
         : run \in ScriptRuns }
      \cup { Returned("run_script", [str |-> "Python interpreter not found. Make sure Python is installed and accessible."],
                      fs, <<>>) }

\* run_script(script_path, args): script_path is None when the input has none.
\* subprocess.run kills the child it spawned when the timeout expires.
run_script(fs, script_path) ==
    LET path == IF script_path = None THEN filename ELSE script_path IN
    IF ~Exists(fs, path)
    THEN { Returned("run_script", [str |-> "Script file not found: " \o path], fs, <<>>) }
    ELSE { IF run.seconds > ScriptTimeout
           THEN Returned("run_script", [str |-> "Script execution timed out after 30 seconds: " \o path],
                         fs, << [script |-> path, seconds |-> run.seconds,
                                 state |-> "killed"] >>)
           ELSE Returned("run_script", [str |-> ScriptOutput(run)],
                         fs, << [script |-> path, seconds |-> run.seconds,
                                 state |-> "exited"] >>)
         : run \in ScriptRuns }
      \cup { Returned("run_script", [str |-> "Python interpreter not found. Make sure Python is installed and accessible."],
                      fs, <<>>) }

\* the handler of a run of execute_tool that reached no handler
NoHandler == "<none>"

\* (mutant) an unregistered name gives an error text instead of an exception
execute_tool_soft(fs, tool_name, parameters) ==
    IF tool_name = "write_file"
    THEN write_file(fs, Get(parameters, "content", ""))
    ELSE IF tool_name = "read_file"
    THEN read_file(fs, Get(parameters, "filepath", ""))
    ELSE IF tool_name = "generate_random_number"
    THEN generate_random_number(fs, Get(parameters, "min_val", DefaultMinVal),
                                    Get(parameters, "max_val", DefaultMaxVal))
    ELSE IF tool_name = "run_script"
    THEN run_script(fs, Get(parameters, "script_path", None))
    ELSE { Returned(NoHandler, [str |-> "Unknown tool: " \o tool_name], fs, <<>>) }

ToolNames == { "write_file", "read_file", "generate_random_number", "run_script" }

\* execute_tool(tool_name, parameters): the runs of the handler it dispatches to
execute_tool(fs, tool_name, parameters) ==
    IF tool_name = "write_file"
    THEN write_file(fs, Get(parameters, "content", ""))
    ELSE IF tool_name = "read_file"
    THEN read_file(fs, Get(parameters, "filepath", ""))
    ELSE IF tool_name = "generate_random_number"
    THEN generate_random_number(fs, Get(parameters, "min_val", DefaultMinVal),
                                    Get(parameters, "max_val", DefaultMaxVal))
    ELSE IF tool_name = "run_script"
    THEN run_script(fs, Get(parameters, "script_path", None))
    ELSE { Raised(NoHandler, "Unknown tool: " \o tool_name, fs) }

\* ------------------------------------------------------------------------
\* Requests
\* ------------------------------------------------------------------------
\* get_file_contents() (a file that exists can be read)
get_file_contents(fs) ==
    IF Exists(fs, filename) THEN UniversalNewlines(fs[filename])
    ELSE "File " \o filename \o " does not exist yet."

\* the Turn get_messages_with_file_context puts before the conversation (the
\* code fence around the file contents and the last sentences are left out)
ContextTurn(fs) ==
    [role |-> "user",
     content |-> [text |->
        "You are working on the file: " \o filename
        \o "\n\nCurrent file contents:\n" \o get_file_contents(fs)
        \o "\n\nWhen you suggest changes to the code, please use the write_file tool to update the entire file contents."]]

\* (mutant) the conversation alone is sent
get_messages_without_file_context(fs, conv) == conv

\* get_messages_with_file_context()
get_messages_with_file_context(fs, conv) == << ContextTurn(fs) >> \o conv

\* data of call_claude (tools |-> TRUE: the tool schema is sent) and of
\* call_claude_continue (no "tools" key)
Data(fs, conv, tools) ==
    [messages |-> get_messages_with_file_context(fs, conv), tools |-> tools]

\* (mutant) the logged headers are the headers of the request sent
LogRequestAsSent(data) == [x_api_key |-> "sk-secret", data |-> data]

\* log_request: url, headers with the placeholder, data
LogRequest(data) == [x_api_key |-> REDACTED, data |-> data]

\* the urllib Request: headers {**headers, "x-api-key": api_key}
WireRequest(data, key) == [x_api_key |-> key, data |-> data]

\* (mutant) every entry is given the default call_type
LogEntryDefaultType(request_data, response_data, call_type) ==
    [call_type |-> "main", request |-> request_data, response |-> response_data]

\* the entry log_api_call appends to api_logs (the timestamp is left out)
LogEntry(request_data, response_data, call_type) ==
    [call_type |-> call_type, request |-> request_data, response |-> response_data]

\* ------------------------------------------------------------------------
\* The log file
\* ------------------------------------------------------------------------
\* What open(log_file, 'w') and json.dump do at one call of log_api_call:
\*   "written"  the file then holds the whole list
\*   "refused"  open raises (no permission, no directory): the file is as it was
\*   "cut"      open emptied the file and the dump broke off (disk full): the
\*              file no longer holds a list
LogWrites == { "written", "refused", "cut" }

\* the file system takes every write
Writable == { "written" }

\* the log file before the first write of a session
NoLog == [state |-> "absent"]

\* a log file that holds the list entries
LogOf(entries) == [state |-> "list", entries |-> entries]

\* a log file whose write broke off
CutLog == [state |-> "cut"]

\* (mutant) without the try/except around the write
log_api_call_unguarded(logs, file, entry, write) ==
    LET appended == Append(logs, entry) IN
    [api_logs |-> appended,
     log_file |-> IF write = "written" THEN LogOf(appended)
                  ELSE IF write = "refused" THEN file
                  ELSE CutLog,
     raised |-> write # "written",
     error |-> "OSError"]

\* log_api_call: the entry joins api_logs, then the whole list is written;
\* "except Exception" keeps a failed write inside (raised is never TRUE)
log_api_call(logs, file, entry, write) ==
    LET appended == Append(logs, entry) IN
    [api_logs |-> appended,
     log_file |-> IF write = "written" THEN LogOf(appended)
                  ELSE IF write = "refused" THEN file
                  ELSE CutLog,
     raised |-> FALSE,
     error |-> "OSError"]

\* ------------------------------------------------------------------------
\* Reading a response
\* ------------------------------------------------------------------------
IsText(content_block) == content_block.type = "text"
IsToolUse(content_block) == content_block.type = "tool_use"

\* the "text" of the text blocks, in order
RECURSIVE TextsOf(_)
TextsOf(content) ==
    IF content = <<>> THEN <<>>
    ELSE (IF IsText(Head(content)) THEN << Head(content).text >> ELSE <<>>)
         \o TextsOf(Tail(content))

\* tool_calls: the tool_use blocks, in order
ToolCalls(content) == SelectSeq(content, IsToolUse)

\* (mutant) the last requested tool is taken instead of the first
LastToolCall(tool_calls) == tool_calls[Len(tool_calls)]

\* the tool_call call_claude executes
FirstToolCall(tool_calls) == tool_calls[1]

\* (mutant) the joined text is taken as it is
InitialPartsUnstripped(content) ==
    LET text_content == TextsOf(content) IN
    IF text_content # <<>> THEN << Join(text_content, <<"\n">>) >> ELSE <<>>

\* response_parts after the text of the initial response
InitialParts(content) ==
    LET text_content == TextsOf(content)
        combined_text == Strip(Join(text_content, <<"\n">>)) IN
    IF text_content # <<>> /\ combined_text # <<>> THEN << combined_text >> ELSE <<>>

\* what call_claude_continue returns for a response
ContinueReply(content) ==
    IF content = <<>> THEN ToolCompleted
    ELSE LET text_parts == TextsOf(content) IN
         IF text_parts # <<>> THEN Join(text_parts, <<"\n">>) ELSE ToolCompleted

\* (mutant) the continuation's content is appended as a user Turn
ContinueConversationAsUser(conv, content) ==
    IF content = <<>> THEN conv
    ELSE Append(conv, [role |-> "user", content |-> [blocks |-> content]])

\* the conversation after call_claude_continue read a response
ContinueConversation(conv, content) ==
    IF content = <<>> THEN conv ELSE Append(conv, AssistantTurn(content))

\* (mutant) the continuation's reply is appended whatever it holds
FollowUpPartsUnchecked(parts, follow_up_response) ==
    Append(parts, follow_up_response)

\* response_parts after the continuation
FollowUpParts(parts, follow_up_response) ==
    IF Strip(follow_up_response) # <<>> THEN Append(parts, follow_up_response) ELSE parts

\* what call_claude returns
FinalReply(parts) ==
    IF parts # <<>> THEN Join(parts, <<"\n", "\n">>) ELSE ToolCompleted

\* (mutant) "if api_key is None"
MissingIfNone(key) == key = None

\* "if not api_key"
Missing(key) == key = None \/ key = ""

\* ------------------------------------------------------------------------
\* State
\* ------------------------------------------------------------------------
VARIABLES
    conversation,    \* self.conversation
    api_logs,        \* self.api_logs
    log_file,        \* what the file self.log_file holds
    files,           \* the file system: path -> contents, or NoFile
    api_key,         \* ANTHROPIC_API_KEY in the environment
    pc,              \* where the program is
    response_parts,  \* response_parts of the call_claude in progress
    prompts,         \* number of prompts submitted so far
    before,          \* conversation, files, api_logs when the last call_claude began
    writes,          \* how the writes of the log file went in the last call_claude
    sent,            \* the requests the last call_claude put on the wire
    received,        \* the response contents the last call_claude read
    runs,            \* the execute_tool calls of the last call_claude
    outcome          \* how the last call_claude ended, as run() prints it

vars == << conversation, api_logs, log_file, files, api_key, pc, response_parts,
           prompts, before, writes, sent, received, runs, outcome >>

Init ==
    /\ conversation = <<>>
    /\ api_logs = <<>>
    /\ log_file = NoLog
    /\ files \in { [path \in Paths |-> IF path = filename THEN f ELSE "lib"]
                   : f \in { NoFile, "old" } }
    /\ api_key \in ApiKeys
    /\ pc = "repl"
    /\ response_parts = <<>>
    /\ prompts = 0
    /\ before = [conversation |-> <<>>, files |-> files, api_logs |-> <<>>]
    /\ writes = <<>>
    /\ sent = <<>>
    /\ received = <<>>
    /\ runs = <<>>
    /\ outcome = [kind |-> "none"]

\* call_claude returned a reply and run() printed it
Reply(text) == [kind |-> "reply", reply |-> text]
\* call_claude raised and run() printed "Error: ..."
Error(message) == [kind |-> "error", error |-> message]

\* ------------------------------------------------------------------------
\* Actions
\* ------------------------------------------------------------------------
\* run(): the operator types a prompt; call_claude up to its urlopen
Submit(user_input) ==
    /\ pc = "repl"
    /\ prompts < MaxPrompts
    /\ prompts' = prompts + 1
    /\ before' = [conversation |-> conversation, files |-> files,
                   api_logs |-> api_logs]
    /\ writes' = <<>>
    /\ received' = <<>>
    /\ runs' = <<>>
    /\ response_parts' = <<>>
    /\ IF Missing(api_key)
       THEN /\ outcome' = Error("ANTHROPIC_API_KEY environment variable not set")
            /\ sent' = <<>>
            /\ pc' = "repl"
            /\ UNCHANGED conversation
       ELSE /\ conversation' = Append(conversation, UserTurn(user_input))
            /\ sent' = << WireRequest(Data(files, conversation', TRUE), api_key) >>
            /\ pc' = "main"
            /\ UNCHANGED outcome
    /\ UNCHANGED << api_logs, log_file, files, api_key >>

\* call_claude from the response of its urlopen to its return, its raise or
\* the urlopen of call_claude_continue
MainResponse(content, write) ==
    /\ pc = "main"
    /\ received' = Append(received, content)
    /\ writes' = Append(writes, write)
    /\ LET logged == log_api_call(api_logs, log_file,
                         LogEntry(LogRequest(sent[Len(sent)].data), content, "main"),
                         write)
           tool_calls == ToolCalls(content)
           parts == InitialParts(content)
           answered == Append(conversation, AssistantTurn(content)) IN
       /\ api_logs' = logged.api_logs
       /\ log_file' = logged.log_file
       /\ IF logged.raised
          THEN /\ outcome' = Error(logged.error)
               /\ pc' = "repl"
               /\ UNCHANGED << conversation, files, response_parts, sent, runs >>
          ELSE IF tool_calls = <<>>
          THEN /\ conversation' = answered
               /\ outcome' = Reply(FinalReply(parts))
               /\ pc' = "repl"
               /\ UNCHANGED << files, response_parts, sent, runs >>
          ELSE LET tool_call == FirstToolCall(tool_calls) IN
               \E run \in execute_tool(files, tool_call.name, tool_call.input) :
                   /\ runs' = Append(runs, [tool_call |-> tool_call, run |-> run])
                   /\ files' = run.files
                   /\ IF run.raised
                      THEN /\ conversation' = answered
                           /\ outcome' = Error(run.error)
                           /\ pc' = "repl"
                           /\ UNCHANGED << response_parts, sent >>
                      ELSE /\ conversation' =
                                 Append(answered, ToolResultTurn(tool_call, Str(run.value)))
                           /\ response_parts' = parts
                           /\ sent' = Append(sent,
                                 WireRequest(Data(files', conversation', FALSE), api_key))
                           /\ pc' = "continue"
                           /\ UNCHANGED outcome
    /\ UNCHANGED << api_key, prompts, before >>

\* (mutant) the failed call empties the Conversation
MainErrorResets(fault) ==
    /\ pc = "main"
    /\ outcome' = Error(fault)
    /\ pc' = "repl"
    /\ conversation' = <<>>
    /\ UNCHANGED << api_logs, log_file, files, api_key, response_parts,
                    prompts, before, writes, sent, received, runs >>

\* urlopen of call_claude raises: both except clauses raise again
MainError(fault) ==
    /\ pc = "main"
    /\ outcome' = Error(fault)
    /\ pc' = "repl"
    /\ UNCHANGED << conversation, api_logs, log_file, files, api_key,
                    response_parts, prompts, before, writes, sent, received, runs >>

\* (mutant) the continuation executes the first tool_use block it is given
\* and asks the service again
ContinueResponseRunsTool(content, write) ==
    /\ pc = "continue"
    /\ received' = Append(received, content)
    /\ writes' = Append(writes, write)
    /\ LET logged == log_api_call(api_logs, log_file,
                         LogEntry(LogRequest(sent[Len(sent)].data), content, "continue"),
                         write) IN
       /\ api_logs' = logged.api_logs
       /\ log_file' = logged.log_file
       /\ IF logged.raised
          THEN /\ outcome' = Error(logged.error)
               /\ pc' = "repl"
               /\ UNCHANGED << conversation, files, sent, runs >>
          ELSE /\ conversation' = ContinueConversation(conversation, content)
               /\ IF ToolCalls(content) = <<>>
                  THEN /\ outcome' = Reply(FinalReply(FollowUpParts(response_parts,
                                                             ContinueReply(content))))
                       /\ pc' = "repl"
                       /\ UNCHANGED << files, sent, runs >>
                  ELSE LET tool_call == FirstToolCall(ToolCalls(content)) IN
                       \E run \in execute_tool(files, tool_call.name, tool_call.input) :
                           /\ runs' = Append(runs, [tool_call |-> tool_call, run |-> run])
                           /\ files' = run.files
                           /\ sent' = Append(sent,
                                  WireRequest(Data(files', conversation', FALSE), api_key))
                           /\ pc' = "continue"
                           /\ UNCHANGED outcome
    /\ UNCHANGED << api_key, response_parts, prompts, before >>

\* call_claude_continue from the response of its urlopen, and the rest of
\* call_claude
ContinueResponse(content, write) ==
    /\ pc = "continue"
    /\ received' = Append(received, content)
    /\ writes' = Append(writes, write)
    /\ LET logged == log_api_call(api_logs, log_file,
                         LogEntry(LogRequest(sent[Len(sent)].data), content, "continue"),
                         write) IN
       /\ api_logs' = logged.api_logs
       /\ log_file' = logged.log_file
       /\ IF logged.raised
          THEN /\ outcome' = Error(logged.error)
               /\ UNCHANGED conversation
          ELSE /\ conversation' = ContinueConversation(conversation, content)
               /\ outcome' = Reply(FinalReply(FollowUpParts(response_parts,
                                                           ContinueReply(content))))
    /\ pc' = "repl"
    /\ UNCHANGED << files, api_key, response_parts, prompts, before, sent, runs >>

\* (mutant) the failed continuation takes back the Turns of the call
ContinueErrorRollsBack(fault) ==
    /\ pc = "continue"
    /\ outcome' = Error(fault)
    /\ pc' = "repl"
    /\ conversation' = before.conversation
    /\ UNCHANGED << api_logs, log_file, files, api_key, response_parts,
                    prompts, before, writes, sent, received, runs >>

\* urlopen of call_claude_continue raises; call_claude lets it through
ContinueError(fault) ==
    /\ pc = "continue"
    /\ outcome' = Error(fault)
    /\ pc' = "repl"
    /\ UNCHANGED << conversation, api_logs, log_file, files, api_key,
                    response_parts, prompts, before, writes, sent, received, runs >>

\* run(): the operator types quit, exit or q
Quit(user_input) ==
    /\ pc = "repl"
    /\ pc' = "exited"
    /\ UNCHANGED << conversation, api_logs, log_file, files, api_key,
                    response_parts, prompts, before, writes, sent, received, runs,
                    outcome >>

Next ==
    \/ \E user_input \in Prompts : Submit(user_input)
    \/ \E content \in Contents, write \in Writable : MainResponse(content, write)
    \/ \E fault \in TransportFaults : MainError(fault)
    \/ \E content \in ContinueContents, write \in Writable :
           ContinueResponse(content, write)
    \/ \E fault \in TransportFaults : ContinueError(fault)
    \/ \E user_input \in QuitWords : Quit(user_input)

Spec == Init /\ [][Next]_vars

\* ------------------------------------------------------------------------
\* One call_claude over a wider range of texts
\* ------------------------------------------------------------------------
\* texts of text blocks: empty, whitespace-only, with whitespace at an end
ReplyTexts == { <<>>, <<" ">>, <<"a">>, <<" ", "a">>, <<"a", "\n">> }

ReplyBlocksAt(i) ==
    { TextBlock(t) : t \in ReplyTexts }
    \cup { ToolUseBlock(ToolUseId(i), "read_file", [filepath |-> OtherPath]) }

RECURSIVE ReplyContentOfLen(_)
ReplyContentOfLen(n) ==
    IF n = 0 THEN { <<>> }
    ELSE { Append(c, b) : c \in ReplyContentOfLen(n - 1), b \in ReplyBlocksAt(n) }

\* result["content"] of an initial or of a continuation response
ReplyContents == UNION { ReplyContentOfLen(n) : n \in 0..MaxBlocks }

\* the first prompt of a session, answered from ReplyContents
NextReply ==
    \/ \E user_input \in Prompts : prompts = 0 /\ Submit(user_input)
    \/ \E content \in ReplyContents, write \in Writable : MainResponse(content, write)
    \/ \E content \in ReplyContents, write \in Writable :
           ContinueResponse(content, write)

SpecReply == Init /\ [][NextReply]_vars

\* ------------------------------------------------------------------------
\* Vocabulary of the properties
\* ------------------------------------------------------------------------
\* the environment holds no credential: the variable is not set, or is empty
NoCredential == api_key \in { None, "" }

\* no call_claude is in progress
AtRest == pc \in { "repl", "exited" }

\* the last call_claude is past the response of its first exchange
PastInitial == received # <<>>

\* Turns by their shape
IsPromptTurn(turn) == turn.role = "user" /\ "text" \in DOMAIN turn.content

IsAssistantTurn(turn) == turn.role = "assistant" /\ "blocks" \in DOMAIN turn.content

IsToolResultTurn(turn) ==
    /\ turn.role = "user"
    /\ "blocks" \in DOMAIN turn.content
    /\ \E i \in 1..Len(turn.content.blocks) :
           turn.content.blocks[i].type = "tool_result"

\* the Turns the last call_claude appended
NewTurns ==
    SubSeq(conversation, Len(before.conversation) + 1, Len(conversation))

\* the tool_use blocks of a content list, by position
ToolUsePositions(content) ==
    { i \in 1..Len(content) : content[i].type = "tool_use" }

\* the tool_use block of a content list that comes first in response order
EarliestToolUse(content) ==
    content[CHOOSE i \in ToolUsePositions(content) :
                \A j \in ToolUsePositions(content) : i <= j]

\* the execute_tool calls of the last call_claude that ran a handler
HandlerRuns == SelectSeq(runs, LAMBDA r : r.run.handler # NoHandler)

\* the processes the last call_claude spawned
RECURSIVE ChildrenOf(_)
ChildrenOf(rs) ==
    IF rs = <<>> THEN <<>> ELSE Head(rs).run.children \o ChildrenOf(Tail(rs))

\* ------------------------------------------------------------------------
\* C1  Only the first tool_use block of an initial response is executed
\* ------------------------------------------------------------------------
\* the initial response of the last call_claude held two or more tool_use blocks
SeveralToolUses ==
    PastInitial /\ Cardinality(ToolUsePositions(received[1])) >= 2

\* C1 as claimed, its first clause: for an initial response with k >= 2
\* tool_use blocks exactly one handler runs, the one the first block names.
\* (Its last clause, exactly one tool_result block, fails with it, and also
\* when the one handler raises.)
C1_ExactlyOneHandler ==
    SeveralToolUses =>
        /\ Len(HandlerRuns) = 1
        /\ HandlerRuns[1].run.handler = EarliestToolUse(received[1]).name

\* C1 amended: for an initial response with k >= 2 tool_use blocks,
\* execute_tool is called once, with the first block in response order; a
\* handler runs only if that block names a registered tool; the target file
\* changes only by a write_file named by the first block, a process is
\* spawned only by a run_script named by the first block; and a tool_result
\* Turn, carrying the first block's id, is appended exactly when that call
\* returned (none when it raised).
C1_OnlyFirstToolUse ==
    SeveralToolUses =>
        LET first == EarliestToolUse(received[1])
            results == SelectSeq(NewTurns, IsToolResultTurn) IN
        /\ Len(runs) = 1
        /\ runs[1].tool_call = first
        /\ Len(HandlerRuns) = (IF first.name \in ToolNames THEN 1 ELSE 0)
        /\ \A i \in 1..Len(HandlerRuns) : HandlerRuns[i].run.handler = first.name
        /\ files # before.files =>
               /\ first.name = "write_file"
               /\ files = [before.files EXCEPT ![filename] = first.input.content]
        /\ ChildrenOf(runs) # <<>> =>
               /\ first.name = "run_script"
               /\ Len(ChildrenOf(runs)) = 1
        /\ Len(results) = (IF runs[1].run.raised THEN 0 ELSE 1)
        /\ \A i \in 1..Len(results) :
               /\ Len(results[i].content.blocks) = 1
               /\ results[i].content.blocks[1].tool_use_id = first.id

\* a response asked for write_file and then run_script: the file was written,
\* no process was spawned
C1_Witness ==
    /\ SeveralToolUses
    /\ received[1][1].type = "tool_use" /\ received[1][1].name = "write_file"
    /\ received[1][2].type = "tool_use" /\ received[1][2].name = "run_script"
    /\ pc = "continue"
    /\ files[filename] = "x"
    /\ before.files[filename] # "x"

\* ------------------------------------------------------------------------
\* C2  At most two exchanges and one handler per prompt
\* ------------------------------------------------------------------------
\* C2: one call_claude puts at most two requests on the wire (the second
\* only after the first was answered) and calls execute_tool at most once;
\* when the continuation response holds tool_use blocks, the call is over
\* with that response: still two requests, still one execute_tool call, and
\* the file system is as the one executed tool left it.
C2_TwoExchangesOneTool ==
    /\ Len(sent) <= 2
    /\ Len(sent) <= Len(received) + 1
    /\ Len(runs) <= 1
    /\ Len(HandlerRuns) <= 1
    /\ (Len(received) = 2 /\ ToolUsePositions(received[2]) # {}) =>
           /\ AtRest
           /\ Len(sent) = 2
           /\ Len(runs) = 1
           /\ runs[1].tool_call = EarliestToolUse(received[1])
           /\ files = runs[1].run.files
           /\ Len(SelectSeq(NewTurns, IsToolResultTurn)) = 1

\* a continuation response asked for write_file after the initial response
\* had run a script
C2_Witness ==
    /\ Len(received) = 2
    /\ ToolUsePositions(received[2]) # {}
    /\ received[2][1].name = "write_file"
    /\ runs[1].tool_call.name = "run_script"
    /\ files[filename] # received[2][1].input.content

\* ------------------------------------------------------------------------
\* C3  Order of the Turns
\* ------------------------------------------------------------------------
\* C3 as claimed: between calls, every user prompt Turn is immediately
\* followed by an assistant Turn and so is every tool_result Turn.
C3_EveryUserTurnAnswered ==
    AtRest =>
        \A i \in 1..Len(conversation) :
            (IsPromptTurn(conversation[i]) \/ IsToolResultTurn(conversation[i])) =>
                /\ i < Len(conversation)
                /\ IsAssistantTurn(conversation[i + 1])

\* C3 amended: in every reachable state the Conversation is a concatenation
\* of segments, one per prompt, each a non-empty prefix of
\* user, assistant, tool_result, assistant: the first Turn is a user prompt
\* Turn; an assistant Turn directly follows a user prompt Turn or a
\* tool_result Turn; a tool_result Turn directly follows an assistant Turn
\* that holds a tool_use block and itself follows a user prompt Turn; and the
\* assistant Turn after a tool_result Turn is followed by nothing but the
\* next user prompt Turn.
C3_TurnOrder ==
    \A i \in 1..Len(conversation) :
        LET turn == conversation[i] IN
        /\ IsPromptTurn(turn) \/ IsAssistantTurn(turn) \/ IsToolResultTurn(turn)
        /\ i = 1 => IsPromptTurn(turn)
        /\ IsAssistantTurn(turn) =>
               /\ i > 1
               /\ conversation[i - 1].role = "user"
        /\ IsToolResultTurn(turn) =>
               /\ i > 2
               /\ IsAssistantTurn(conversation[i - 1])
               /\ ToolUsePositions(conversation[i - 1].content.blocks) # {}
               /\ IsPromptTurn(conversation[i - 2])
        /\ (IsAssistantTurn(turn) /\ i > 1 /\ IsToolResultTurn(conversation[i - 1])
              /\ i < Len(conversation)) =>
               IsPromptTurn(conversation[i + 1])

\* two prompts in one Conversation: the first went through a tool and a
\* continuation, the second exchange failed and left its user Turn last
C3_Witness ==
    /\ AtRest
    /\ Len(conversation) = 5
    /\ IsToolResultTurn(conversation[3])
    /\ IsAssistantTurn(conversation[4])
    /\ IsPromptTurn(conversation[5])

\* ------------------------------------------------------------------------
\* C4  A tool_result Turn answers the assistant Turn before it
\* ------------------------------------------------------------------------
\* C4: every tool_result Turn holds exactly one block, a tool_result, whose
\* tool_use_id is the id of the first tool_use block of the assistant Turn
\* immediately before it.
C4_ToolResultCorrelated ==
    \A i \in 1..Len(conversation) :
        IsToolResultTurn(conversation[i]) =>
            /\ Len(conversation[i].content.blocks) = 1
            /\ conversation[i].content.blocks[1].type = "tool_result"
            /\ i > 1
            /\ IsAssistantTurn(conversation[i - 1])
            /\ ToolUsePositions(conversation[i - 1].content.blocks) # {}
            /\ conversation[i].content.blocks[1].tool_use_id
                 = EarliestToolUse(conversation[i - 1].content.blocks).id

\* a tool_result Turn after an assistant Turn that holds two tool_use blocks
C4_Witness ==
    /\ Len(conversation) >= 3
    /\ IsToolResultTurn(conversation[3])
    /\ Cardinality(ToolUsePositions(conversation[2].content.blocks)) = 2
    /\ conversation[3].content.blocks[1].tool_use_id = "toolu_1"

\* ------------------------------------------------------------------------
\* C5  A failure inside a handler stays inside execute_tool
\* ------------------------------------------------------------------------
\* the initial response of the last call_claude asked first for a registered tool
RegisteredToolAsked ==
    /\ PastInitial
    /\ ToolUsePositions(received[1]) # {}
    /\ EarliestToolUse(received[1]).name \in ToolNames

\* C5: whenever the first tool_use block names a registered tool,
\* execute_tool returns (nothing is raised), a tool_result Turn is appended
\* and the continuation request is sent, whatever the input mapping.
C5_HandlerFailureContained ==
    RegisteredToolAsked =>
        /\ Len(runs) = 1
        /\ ~runs[1].run.raised
        /\ Len(SelectSeq(NewTurns, IsToolResultTurn)) = 1
        /\ Len(sent) = 2

\* ------------------------------------------------------------------------
\* C6  An unregistered tool name fails the call
\* ------------------------------------------------------------------------
\* the initial response of the last call_claude asked first for an
\* unregistered tool
UnknownToolAsked ==
    /\ PastInitial
    /\ ToolUsePositions(received[1]) # {}
    /\ EarliestToolUse(received[1]).name \notin ToolNames

\* C6: when the first tool_use block names an unregistered tool, call_claude
\* has failed with the error of execute_tool: no handler ran, no tool_result
\* Turn was appended, no second request was sent, the file system is as
\* before the call, no process was spawned, and the assistant Turn with the
\* response's content is the last Turn of the Conversation.
C6_UnknownToolFails ==
    UnknownToolAsked =>
        /\ AtRest
        /\ outcome = Error("Unknown tool: " \o EarliestToolUse(received[1]).name)
        /\ HandlerRuns = <<>>
        /\ SelectSeq(NewTurns, IsToolResultTurn) = <<>>
        /\ Len(sent) = 1
        /\ Len(received) = 1
        /\ files = before.files
        /\ ChildrenOf(runs) = <<>>
        /\ conversation[Len(conversation)] = AssistantTurn(received[1])
        /\ Len(NewTurns) = 2

\* an unregistered tool was asked for before write_file: nothing was written
C6_Witness ==
    /\ UnknownToolAsked
    /\ Cardinality(ToolUsePositions(received[1])) = 2
    /\ received[1][2].name = "write_file"
    /\ outcome.kind = "error"
    /\ files[filename] # "x"

\* ------------------------------------------------------------------------
\* C7  A transport failure rolls nothing back
\* ------------------------------------------------------------------------
\* the last call_claude ended in a failure of urlopen
TransportFailed ==
    /\ AtRest
    /\ prompts > 0
    /\ outcome.kind = "error"
    /\ outcome.error \in TransportFaults

\* C7: the Turns present when a call began stay as they were; after a
\* failure of the initial exchange the call has added the user Turn alone
\* and left the files alone; after a failure of the continuation exchange it
\* has added the user Turn, the assistant Turn and the tool_result Turn, and
\* the files are as the executed tool left them.
C7_NothingRolledBack ==
    /\ Len(conversation) >= Len(before.conversation)
    /\ SubSeq(conversation, 1, Len(before.conversation)) = before.conversation
    /\ (TransportFailed /\ received = <<>>) =>
           /\ Len(NewTurns) = 1
           /\ IsPromptTurn(NewTurns[1])
           /\ files = before.files
    /\ (TransportFailed /\ received # <<>>) =>
           /\ Len(received) = 1
           /\ Len(NewTurns) = 3
           /\ IsPromptTurn(NewTurns[1])
           /\ NewTurns[2] = AssistantTurn(received[1])
           /\ IsToolResultTurn(NewTurns[3])
           /\ Len(runs) = 1
           /\ files = runs[1].run.files

\* the continuation exchange of the second prompt failed after write_file
\* had replaced the target file
C7_Witness ==
    /\ TransportFailed
    /\ Len(received) = 1
    /\ before.conversation # <<>>
    /\ runs[1].tool_call.name = "write_file"
    /\ files[filename] = "x"
    /\ before.files[filename] # "x"

\* ------------------------------------------------------------------------
\* C8  A missing credential fails the call before any exchange
\* ------------------------------------------------------------------------
\* C8: with the credential missing (not set, or empty), no request is ever
\* sent, no response read, no tool executed and no entry logged, and every
\* call_claude ends with the configuration error.
C8_NoCredentialNoExchange ==
    NoCredential =>
        /\ sent = <<>>
        /\ received = <<>>
        /\ runs = <<>>
        /\ api_logs = <<>>
        /\ files = before.files
        /\ AtRest
        /\ prompts > 0 =>
               outcome = Error("ANTHROPIC_API_KEY environment variable not set")

\* a prompt was submitted while the variable was set to the empty string
C8_Witness ==
    /\ api_key = ""
    /\ prompts > 0
    /\ outcome.kind = "error"

\* ------------------------------------------------------------------------
\* C9  After a failed call the REPL goes on with the Conversation kept
\* ------------------------------------------------------------------------
\* the step in which a call_claude raises
CallFails ==
    /\ \/ pc \in { "main", "continue" }
       \/ pc = "repl" /\ prompts' = prompts + 1
    /\ pc' \notin { "main", "continue" }
    /\ outcome'.kind = "error"

\* the Conversation after the step holds every Turn it held when the call began
ConversationKept ==
    /\ Len(conversation') >= Len(before'.conversation)
    /\ SubSeq(conversation', 1, Len(before'.conversation)) = before'.conversation

\* the Conversation after the step holds the user Turn of the call's prompt
PromptTurnKept ==
    /\ Len(conversation') > Len(before'.conversation)
    /\ IsPromptTurn(conversation'[Len(before'.conversation) + 1])

\* C9 as claimed: whenever a call_claude raises, the user Turn of its prompt
\* is in the Conversation, the Conversation is not reset and the REPL waits
\* for the next prompt.
C9_FailedPromptKept ==
    [][CallFails => (pc' = "repl" /\ ConversationKept /\ PromptTurnKept)]_vars

\* C9 amended: whenever a call_claude raises, the REPL waits for the next
\* prompt with the Conversation not reset; the user Turn of the failed prompt
\* is in the Conversation when the call failed after the credential check
\* (transport failure, unknown tool, exception of a handler), and when the
\* credential is missing the Conversation is exactly what it was before the
\* call, without that user Turn.
C9_FailedCallKeepsConversation ==
    [][CallFails =>
          /\ pc' = "repl"
          /\ ConversationKept
          /\ IF NoCredential
             THEN conversation' = conversation /\ conversation' = before'.conversation
             ELSE PromptTurnKept]_vars

\* the second prompt was accepted after the first call had failed with its
\* user Turn kept
C9_Witness ==
    /\ pc = "main"
    /\ prompts = 2
    /\ outcome.kind = "error"
    /\ Len(conversation) = 2
    /\ IsPromptTurn(conversation[1])
    /\ IsPromptTurn(conversation[2])

\* ------------------------------------------------------------------------
\* C10  The reply
\* ------------------------------------------------------------------------
\* the last call_claude returned a reply
Replied == AtRest /\ prompts > 0 /\ outcome.kind = "reply"

HasTextBlock(content) == \E i \in 1..Len(content) : content[i].type = "text"

\* the texts of the text blocks of a content list, one per line
RECURSIVE Lines(_, _)
Lines(content, i) ==
    IF i > Len(content) THEN <<>>
    ELSE IF content[i].type # "text" THEN Lines(content, i + 1)
    ELSE IF \E j \in (i + 1)..Len(content) : content[j].type = "text"
         THEN content[i].text \o <<"\n">> \o Lines(content, i + 1)
         ELSE content[i].text

BlankLine == << "\n", "\n" >>

IsBlank(text) == \A i \in 1..Len(text) : text[i] \in Whitespace

\* text without the whitespace at its ends
Trimmed(text) ==
    IF IsBlank(text) THEN <<>>
    ELSE LET lo == CHOOSE i \in 1..Len(text) :
                      text[i] \notin Whitespace /\ IsBlank(SubSeq(text, 1, i - 1))
             hi == CHOOSE i \in 1..Len(text) :
                      text[i] \notin Whitespace /\ IsBlank(SubSeq(text, i + 1, Len(text)))
         IN SubSeq(text, lo, hi)

\* the reply of the continuation, as claimed and as amended
ReferenceContinueReply(content) ==
    IF content = <<>> \/ ~HasTextBlock(content) THEN ToolCompleted
    ELSE Lines(content, 1)

\* the reference value of C10 as claimed; "no text" is read as: the joined
\* text is empty
ClaimedReply(responses) ==
    LET text == Lines(responses[1], 1) IN
    IF ToolUsePositions(responses[1]) = {}
    THEN IF text = <<>> THEN ToolCompleted ELSE text
    ELSE IF text = <<>>
         THEN ReferenceContinueReply(responses[2])
         ELSE text \o BlankLine \o ReferenceContinueReply(responses[2])

\* C10 as claimed: the reply is the joined text of the initial response (the
\* fallback without text) and, after a tool, that text, a blank line and the
\* continuation's reply.
C10_ReplyAsClaimed ==
    Replied => outcome.reply = ClaimedReply(received)

\* the reference value of C10 as amended
AmendedReply(responses) ==
    LET text == Trimmed(Lines(responses[1], 1))
        follow == IF ToolUsePositions(responses[1]) = {} THEN <<>>
                  ELSE ReferenceContinueReply(responses[2])
    IN IF IsBlank(text) /\ IsBlank(follow) THEN ToolCompleted
       ELSE IF IsBlank(follow) THEN text
       ELSE IF IsBlank(text) THEN follow
       ELSE text \o BlankLine \o follow

\* C10 amended: the initial text is the joined text blocks of the initial
\* response with the whitespace at its ends stripped, and counts only when
\* something is left; the continuation's reply (its joined text blocks as
\* they are, or the fallback string without content or text block) counts
\* only when it is not empty or whitespace-only; the reply is the parts that
\* count, a blank line between them, or the fallback string when none does.
C10_ReplyAsAmended ==
    Replied => outcome.reply = AmendedReply(received)

\* a tool ran between an initial text and the two texts of a continuation
C10_Witness ==
    /\ Replied
    /\ Len(received) = 2
    /\ received[1][1] = TextBlock(<<" ", "a">>)
    /\ received[2] = << TextBlock(<<"a">>), TextBlock(<<"a", "\n">>) >>
    /\ outcome.reply = << "a", "\n", "\n", "a", "\n", "a", "\n" >>

\* ------------------------------------------------------------------------
\* A session whose writes of the log file may fail
\* ------------------------------------------------------------------------
\* result["content"] of an initial response: a text, or a request for write_file
LogContents ==
    { << TextBlock(<<"a">>) >>,
      << ToolUseBlock(ToolUseId(1), "write_file", [content |-> "x"]) >> }

\* result["content"] of a continuation response
LogContinueContents == { <<>>, << TextBlock(<<"b">>) >> }

NextLog ==
    \/ \E user_input \in Prompts : Submit(user_input)
    \/ \E content \in LogContents, write \in LogWrites : MainResponse(content, write)
    \/ \E fault \in TransportFaults : MainError(fault)
    \/ \E content \in LogContinueContents, write \in LogWrites :
           ContinueResponse(content, write)
    \/ \E fault \in TransportFaults : ContinueError(fault)

SpecLog == Init /\ [][NextLog]_vars

\* ------------------------------------------------------------------------
\* C11  One log entry per exchange, in order
\* ------------------------------------------------------------------------
\* the entries the last call_claude appended to api_logs
NewEntries == SubSeq(api_logs, Len(before.api_logs) + 1, Len(api_logs))

\* the kind of the i-th exchange of a call_claude, as log_api_call is given it
KindOf(i) == IF i = 1 THEN "main" ELSE "continue"

C12_CredentialRedacted ==
    /\ \A k \in 1..Len(api_logs) :
           /\ api_logs[k].request.x_api_key = REDACTED
           /\ api_logs[k].request.x_api_key # api_key
    /\ log_file.state = "list" =>
           \A k \in 1..Len(log_file.entries) :
               log_file.entries[k].request.x_api_key = REDACTED
    /\ \A i \in 1..Len(sent) :
           /\ sent[i].x_api_key = api_key
           /\ sent[i].x_api_key \notin { None, "", REDACTED }
    /\ \A i \in 1..Len(NewEntries) :
           /\ i <= Len(sent)
           /\ NewEntries[i].request.data = sent[i].data
           /\ NewEntries[i].request.x_api_key # sent[i].x_api_key

\* both exchanges of a call were logged and written
C12_Witness ==
    /\ AtRest
    /\ Len(sent) = 2
    /\ Len(NewEntries) = 2
    /\ sent[2].x_api_key = "sk-secret"
    /\ log_file.state = "list"
    /\ Len(log_file.entries) = Len(api_logs)
    /\ NewEntries[2].call_type = "continue"

\* ------------------------------------------------------------------------
\* C13  A failed write of the log file changes nothing else
\* ------------------------------------------------------------------------
\* a write of the log file failed in the last call_claude
WriteFailed == \E i \in 1..Len(writes) : writes[i] # "written"

\* the Turns a call_claude appends after the prompt's, given the responses it
\* read and the tool it ran
ExpectedAnswerTurns ==
    << AssistantTurn(received[1]) >>
    \o (IF runs # <<>> /\ ~runs[1].run.raised
        THEN << ToolResultTurn(runs[1].tool_call, Str(runs[1].run.value)) >>
        ELSE <<>>)
    \o (IF Len(received) = 2 /\ received[2] # <<>>
        THEN << AssistantTurn(received[2]) >>
        ELSE <<>>)

\* C13: whatever became of the writes of the log file, a call_claude that
\* read a response has executed the first tool asked for and no other, has
\* appended the Turns its responses and its tool give, has returned the
\* reply they give, and fails only with the error of its tool or of the
\* transport; every response read has its entry in api_logs; and after a
\* write that succeeded the file holds the whole of api_logs.
C13_LogWriteFailureHarmless ==
    /\ Len(writes) = Len(received)
    /\ Len(api_logs) = Len(before.api_logs) + Len(received)
    /\ \A i \in 1..Len(NewEntries) : NewEntries[i].response = received[i]
    /\ PastInitial =>
           /\ IF ToolUsePositions(received[1]) = {}
              THEN runs = <<>>
              ELSE Len(runs) = 1 /\ runs[1].tool_call = EarliestToolUse(received[1])
           /\ IsPromptTurn(NewTurns[1])
           /\ Tail(NewTurns) = ExpectedAnswerTurns
           /\ outcome.kind = "error" =>
                  \/ Len(runs) = 1 /\ runs[1].run.raised /\ outcome.error = runs[1].run.error
                  \/ Len(sent) = 2 /\ Len(received) = 1 /\ outcome.error \in TransportFaults
           /\ (AtRest /\ (runs = <<>> \/ Len(received) = 2)) =>
                  outcome = Reply(AmendedReply(received))
    /\ (writes # <<>> /\ writes[Len(writes)] = "written") => log_file = LogOf(api_logs)

\* the write after the initial exchange was refused, the write after the
\* continuation put both entries in the file; write_file had run
C13_Witness ==
    /\ AtRest
    /\ WriteFailed
    /\ writes = << "refused", "written" >>
    /\ log_file = LogOf(api_logs)
    /\ Len(log_file.entries) = 2
    /\ runs[1].tool_call.name = "write_file"
    /\ files[filename] = "x"
    /\ outcome = Reply(<<"b">>)

\* ------------------------------------------------------------------------
\* C14  The context Turn
\* ------------------------------------------------------------------------
\* the Conversation as it was when the i-th request of the last call_claude
\* was built: with the prompt's Turn, and for the continuation with the
\* assistant Turn and the tool_result Turn as well
ConversationAt(i) ==
    SubSeq(conversation, 1, Len(before.conversation) + (IF i = 1 THEN 1 ELSE 3))

\* the file system as it was when the i-th request was built
FilesAt(i) == IF i = 1 THEN before.files ELSE runs[1].run.files

\* C14: the messages of every request sent are the context Turn of the
\* target file as it was when the request was built, and after it the whole
\* Conversation of that moment; while an exchange is under way that is the
\* file and the Conversation of the state; no Turn of the Conversation is a
\* context Turn; and after a write_file of the same call that succeeded the
\* context Turn of the continuation request is the one of the written
\* content, which differs from the initial request's when the content does.
C14_ContextTurnFresh ==
    /\ \A i \in 1..Len(sent) :
           /\ sent[i].data.messages[1] = ContextTurn(FilesAt(i))
           /\ Tail(sent[i].data.messages) = ConversationAt(i)
    /\ pc \in { "main", "continue" } =>
           sent[Len(sent)].data.messages = << ContextTurn(files) >> \o conversation
    /\ \A i \in 1..Len(conversation) :
           conversation[i] \notin { ContextTurn(files), ContextTurn(before.files) }
    /\ (Len(sent) = 2 /\ runs[1].run.handler = "write_file"
          /\ runs[1].run.files # before.files) =>
           LET written == [before.files EXCEPT ![filename] = runs[1].tool_call.input.content] IN
           /\ sent[2].data.messages[1] = ContextTurn(written)
           /\ sent[2].data.messages[1] # sent[1].data.messages[1]

\* write_file replaced the content "old"; the continuation request was built
\* after it
C14_Witness ==
    /\ pc = "continue"
    /\ Len(sent) = 2
    /\ runs[1].run.handler = "write_file"
    /\ before.files[filename] = "old"
    /\ files[filename] = "x"
    /\ sent[1].data.messages[1] = ContextTurn(before.files)
    /\ sent[2].data.messages[1] = ContextTurn(files)

\* ------------------------------------------------------------------------
\* A session of tool requests over a wider range of input mappings
\* ------------------------------------------------------------------------
\* a path no file system of the model holds
MissingPath == "missing.py"

\* the tools the service asks for: with and without their parameters
ToolInputs ==
    { [name |-> "write_file", input |-> Empty],
      [name |-> "write_file", input |-> [content |-> ""]],
      [name |-> "write_file", input |-> [content |-> "x"]],
      [name |-> "write_file", input |-> [content |-> "a\r\nb"]],
      [name |-> "read_file", input |-> Empty],
      [name |-> "read_file", input |-> [filepath |-> filename]],
      [name |-> "read_file", input |-> [filepath |-> OtherPath]],
      [name |-> "read_file", input |-> [filepath |-> MissingPath]],
      [name |-> "generate_random_number", input |-> [max_val |-> 2]],
      [name |-> "run_script", input |-> Empty],
      [name |-> "run_script", input |-> [script_path |-> OtherPath]],
      [name |-> "run_script", input |-> [script_path |-> MissingPath]] }

\* result["content"] of an initial response: one tool_use block
ToolsContents ==
    { << ToolUseBlock(ToolUseId(1), r.name, r.input) >> : r \in ToolInputs }

\* result["content"] of a continuation response
ToolsContinueContents == { << TextBlock(<<"b">>) >> }

NextTools ==
    \/ \E user_input \in Prompts : Submit(user_input)
    \/ \E content \in ToolsContents, write \in Writable : MainResponse(content, write)
    \/ \E content \in ToolsContinueContents, write \in Writable :
           ContinueResponse(content, write)

SpecTools == Init /\ [][NextTools]_vars

\* ------------------------------------------------------------------------
\* C15  A required parameter is missing
\* ------------------------------------------------------------------------
\* the tool the last call_claude executed, and its input mapping
Executed == runs[1].tool_call

\* the texts with which write_file and read_file report an error
ErrorTexts ==
    { "Error writing to " \o filename \o ": Permission denied" }
    \cup { "File not found: " \o path : path \in Paths \cup { MissingPath, "" } }
    \cup { "Error reading file " \o path \o ": Permission denied"
               : path \in Paths \cup { MissingPath, "" } }

\* the last call_claude executed a tool without its required parameter
RequiredParameterMissing ==
    /\ runs # <<>>
    /\ \/ Executed.name = "write_file" /\ "content" \notin DOMAIN Executed.input
       \/ Executed.name = "read_file" /\ "filepath" \notin DOMAIN Executed.input

\* C15: when write_file is asked for without content, or read_file without
\* filepath, execute_tool returns (nothing is raised), what it returns is an
\* error text, and the file system is as it was before the call.
C15_MissingParameterIsAnError ==
    RequiredParameterMissing =>
        /\ ~runs[1].run.raised
        /\ runs[1].run.value.str \in ErrorTexts
        /\ files = before.files

\* ------------------------------------------------------------------------
\* C16  write_file, then read_file
\* ------------------------------------------------------------------------
\* what write_file returns after it wrote content
Wrote(content) ==
    "Successfully wrote " \o ToString(Len(content)) \o " characters to " \o filename

\* the last call_claude executed write_file, which wrote
WriteSucceeded ==
    /\ runs # <<>>
    /\ Executed.name = "write_file"
    /\ "content" \in DOMAIN Executed.input
    /\ runs[1].run.value.str = Wrote(Executed.input.content)

\* the call_claude before the last had write_file write content (its Turns
\* are the last four of the Conversation of before), and the last
\* call_claude executed read_file on the target file, which read it
ReadAfterWrite(content) ==
    /\ Len(before.conversation) >= 4
    /\ LET asked == before.conversation[Len(before.conversation) - 2]
           told == before.conversation[Len(before.conversation) - 1] IN
       /\ IsAssistantTurn(asked)
       /\ asked.content.blocks[1].type = "tool_use"
       /\ asked.content.blocks[1].name = "write_file"
       /\ asked.content.blocks[1].input = [content |-> content]
       /\ IsToolResultTurn(told)
       /\ told.content.blocks[1].content = Wrote(content)
    /\ runs # <<>>
    /\ Executed.name = "read_file"
    /\ Executed.input = [filepath |-> filename]
    /\ runs[1].run.value.str \notin ErrorTexts

\* the contents write_file is given in the model
WrittenContents == { "", "x", "a\r\nb" }

\* C16: after write_file wrote content the target file holds content and the
\* other files are as they were; and read_file on the target file, run in the
\* next call_claude, returns content.
C16_WriteReadRoundTrip ==
    /\ WriteSucceeded =>
           files = [before.files EXCEPT ![filename] = Executed.input.content]
    /\ \A content \in WrittenContents :
           ReadAfterWrite(content) => runs[1].run.value.str = content

\* ------------------------------------------------------------------------
\* C17  A script that does not finish in time
\* ------------------------------------------------------------------------
\* the path run_script is to run for an input mapping
ScriptPathOf(input) ==
    IF "script_path" \in DOMAIN input THEN input.script_path ELSE filename

\* the last call_claude executed run_script, and the script it started takes
\* longer than the timeout
ScriptTooSlow ==
    /\ runs # <<>>
    /\ Executed.name = "run_script"
    /\ \E i \in 1..Len(runs[1].run.children) :
           runs[1].run.children[i].seconds > ScriptTimeout

\* C17: when the script takes longer than the timeout, run_script returns
\* the timeout text for the path, which is no EXECUTION block of any run of
\* the script, and every process it spawned has been killed when it returns.
C17_TimeoutKillsChild ==
    ScriptTooSlow =>
        /\ ~runs[1].run.raised
        /\ runs[1].run.value.str =
               "Script execution timed out after 30 seconds: "
               \o ScriptPathOf(Executed.input)
        /\ runs[1].run.value.str \notin { ScriptOutput(run) : run \in ScriptRuns }
        /\ Len(runs[1].run.children) = 1
        /\ \A i \in 1..Len(runs[1].run.children) :
               runs[1].run.children[i].state = "killed"

\* the target file, run without a script_path, took longer than the timeout
C17_Witness ==
    /\ ScriptTooSlow
    /\ Executed.input = Empty
    /\ runs[1].run.children[1].script = filename
    /\ runs[1].run.children[1].state = "killed"
    /\ pc = "continue"

\* ------------------------------------------------------------------------
\* C18  A script that does not exist
\* ------------------------------------------------------------------------
\* the last call_claude executed run_script on a path that did not exist
ScriptMissing ==
    /\ runs # <<>>
    /\ Executed.name = "run_script"
    /\ \/ ScriptPathOf(Executed.input) \notin DOMAIN before.files
       \/ before.files[ScriptPathOf(Executed.input)] = NoFile

\* C18: when the path does not exist (the target file, when the input has no
\* script_path), run_script returns the not-found text for the path and has
\* spawned no process; the file system is as it was.
C18_MissingScriptNotSpawned ==
    ScriptMissing =>
        /\ ~runs[1].run.raised
        /\ runs[1].run.value.str =
               "Script file not found: " \o ScriptPathOf(Executed.input)
        /\ runs[1].run.children = <<>>
        /\ ChildrenOf(runs) = <<>>
        /\ files = before.files

\* run_script without a script_path while the target file did not exist yet
C18_Witness ==
    /\ ScriptMissing
    /\ Executed.input = Empty
    /\ before.files[filename] = NoFile
    /\ runs[1].run.value.str = "Script file not found: target.py"
    /\ pc = "continue"

\* ------------------------------------------------------------------------
\* C19  A continuation response without content blocks
\* ------------------------------------------------------------------------
\* the last call_claude returned a reply after a tool and a continuation
RepliedAfterTool == Replied /\ Len(received) = 2

\* C19: after every call_claude that returned through a tool and a
\* continuation, with or without content blocks in the continuation
\* response, the last Turn of the Conversation is the assistant Turn with
\* the content of the continuation response; without content blocks the
\* continuation's part of the reply is the fallback string.
C19_EmptyContinuationAppended ==
    RepliedAfterTool =>
        /\ conversation[Len(conversation)] = AssistantTurn(received[2])
        /\ Len(NewTurns) = 4
        /\ received[2] = <<>> =>
               outcome.reply = FinalReply(Append(response_parts, ToolCompleted))

\* ------------------------------------------------------------------------
\* C20  The reply is never blank
\* ------------------------------------------------------------------------
\* C20: every reply call_claude returns holds a character that is not
\* whitespace, whatever the contents of the initial and of the continuation
\* response.
C20_ReplyNotBlank ==
    Replied => (outcome.reply # <<>> /\ ~IsBlank(outcome.reply))

\* the initial response held a whitespace-only text and a tool request, the
\* continuation response a whitespace-only text: the reply is the fallback
C20_Witness ==
    /\ Replied
    /\ Len(received) = 2
    /\ received[1][1] = TextBlock(<<" ">>)
    /\ received[2] = << TextBlock(<<" ">>) >>
    /\ outcome.reply = ToolCompleted

====
